---- MODULE Spec2Model ----
(***************************************************************************)
(* A model of src/test_tool_calls.py: the LLM tool-call conformance        *)
(* harness (LLMToolCallTester).                                            *)
(*                                                                         *)
(* Text is modelled as a sequence of lines, a line as a sequence of        *)
(* lexical tokens.  A token is a record [t, v]: t is its lexical class and *)
(* v its text.  A Python value that came out of json.loads is kept as the  *)
(* token sequence that denotes it, so that values of every JSON type have  *)
(* one shape.                                                              *)
(***************************************************************************)
EXTENDS Integers, Sequences, FiniteSets, TLC

\* ------------------------------------------------------------------ bounds

\* Longest text, in lines, handed to the call extractor on its own.
MaxLines == 4

\* Longest tool_calls list handed to the result evaluator on its own.
MaxCalls == 3

\* Fresh responses the endpoint chooses in one run of run_test; after them it
\* repeats its last response, answers in plain prose, or fails.
MaxVaried == 2

\* Fresh responses the endpoint chooses in one run of the whole suite.
MaxSuiteVaried == 2

\* ------------------------------------------------------------------ tokens

Tok(t, v) == [t |-> t, v |-> v]
Str(s) == Tok("str", s)
Num(s) == Tok("num", s)
LBrace == Tok("{", "")
RBrace == Tok("}", "")
LBrack == Tok("[", "")
RBrack == Tok("]", "")
Colon == Tok(":", "")
Comma == Tok(",", "")
\* Blank space at either end of a line (what str.strip removes).
WS == Tok("ws", "")
\* A word of prose: no JSON value starts with it.
Word(s) == Tok("word", s)
\* A fence marker: three backquotes followed by the tag v.
Fence(tag) == Tok("fence", tag)
\* A run of opening brackets nested deeper than the interpreter's recursion
\* limit: json.loads gives up on it with RecursionError, which is not a
\* json.JSONDecodeError.
Deep == Tok("deep", "")

\* The Python str s as a value.
PyStr(s) == <<Str(s)>>
\* The empty dict {}.
EmptyDict == <<LBrace, RBrace>>

\* ------------------------------------------------------------------ json.loads

RECURSIVE ScanValue(_, _)
RECURSIVE ScanMembers(_, _)
RECURSIVE ScanElements(_, _)

ScanOk(j) == [st |-> "ok", end |-> j]
ScanErr == [st |-> "err", end |-> 0]
ScanRec == [st |-> "rec", end |-> 0]

\* Scans one JSON value starting at toks[i]: "ok" with the index after it,
\* "err" (json.JSONDecodeError) or "rec" (RecursionError).
ScanValue(toks, i) ==
    IF i > Len(toks) THEN ScanErr
    ELSE CASE toks[i].t \in {"str", "num", "lit"} -> ScanOk(i + 1)
           [] toks[i].t = "deep" -> ScanRec
           [] toks[i].t = "{" ->
                IF i + 1 <= Len(toks) /\ toks[i + 1].t = "}"
                THEN ScanOk(i + 2)
                ELSE ScanMembers(toks, i + 1)
           [] toks[i].t = "[" ->
                IF i + 1 <= Len(toks) /\ toks[i + 1].t = "]"
                THEN ScanOk(i + 2)
                ELSE ScanElements(toks, i + 1)
           [] OTHER -> ScanErr

\* Scans  "key" : value  { , "key" : value }  }  starting at toks[i].
ScanMembers(toks, i) ==
    IF i + 1 > Len(toks) \/ toks[i].t # "str" \/ toks[i + 1].t # ":"
    THEN ScanErr
    ELSE LET r == ScanValue(toks, i + 2) IN
         IF r.st # "ok" THEN r
         ELSE IF r.end > Len(toks) THEN ScanErr
         ELSE IF toks[r.end].t = "}" THEN ScanOk(r.end + 1)
         ELSE IF toks[r.end].t = "," THEN ScanMembers(toks, r.end + 1)
         ELSE ScanErr

\* Scans  value { , value }  ]  starting at toks[i].
ScanElements(toks, i) ==
    LET r == ScanValue(toks, i) IN
    IF r.st # "ok" THEN r
    ELSE IF r.end > Len(toks) THEN ScanErr
    ELSE IF toks[r.end].t = "]" THEN ScanOk(r.end + 1)
    ELSE IF toks[r.end].t = "," THEN ScanElements(toks, r.end + 1)
    ELSE ScanErr

\* The tokens of a text without its blank space.
NoSpace(toks) == SelectSeq(toks, LAMBDA k : k.t # "ws")

\* json.loads(text), with Decode and Loaded: [st |-> "ok", val |-> the value] when the whole text is
\* one JSON value, [st |-> "err"] for json.JSONDecodeError (also text after
\* the value), [st |-> "rec"] for RecursionError.
Loaded(toks, r) ==
    IF r.st = "ok"
    THEN IF r.end = Len(toks) + 1
         THEN [st |-> "ok", val |-> toks]
         ELSE [st |-> "err", val |-> <<>>]
    ELSE [st |-> r.st, val |-> <<>>]

Decode(toks) == Loaded(toks, ScanValue(toks, 1))

json_loads(text) == Decode(NoSpace(text))

\* isinstance(val, dict)
IsDict(val) == Len(val) >= 1 /\ val[1].t = "{"
\* isinstance(val, str)
IsStr(val) == Len(val) = 1 /\ val[1].t = "str"

RECURSIVE MembersFrom(_, _)
\* The members of the dict val from toks[i] on, in order, as [k, v] records.
MembersFrom(val, i) ==
    IF i > Len(val) \/ val[i].t # "str" THEN <<>>
    ELSE LET r == ScanValue(val, i + 2) IN
         <<[k |-> val[i].v, v |-> SubSeq(val, i + 2, r.end - 1)]>>
             \o (IF val[r.end].t = "," THEN MembersFrom(val, r.end + 1) ELSE <<>>)

Members(val) == MembersFrom(val, 2)

\* Some member of ms has the key.
HasMember(ms, key) == \E n \in 1..Len(ms) : ms[n].k = key

\* The value of the last member of ms that has the key.
LastMember(ms, key) ==
    ms[CHOOSE n \in 1..Len(ms) :
          /\ ms[n].k = key
          /\ \A m \in (n + 1)..Len(ms) : ms[m].k # key].v

\* key in val
HasKey(val, key) == HasMember(Members(val), key)

\* val[key] of a dict that has the key: a repeated key keeps its last value.
Lookup(val, key) == LastMember(Members(val), key)

\* val.get(key, default) of a dict.
MemberOr(ms, key, default) ==
    IF HasMember(ms, key) THEN LastMember(ms, key) ELSE default

DictGet(val, key, default) == MemberOr(Members(val), key, default)

\* bool(val): Python's truth value of a decoded value.
Truthy(val) ==
    CASE Len(val) = 0 -> FALSE
      [] val[1].t = "str" -> val[1].v # ""
      [] val[1].t = "num" -> val[1].v # "0"
      [] val[1].t = "lit" -> val[1].v = "true"
      [] OTHER -> Len(val) > 2

\* ------------------------------------------------------------------ text

RECURSIVE LStrip(_)
LStrip(line) ==
    IF Len(line) > 0 /\ line[1].t = "ws" THEN LStrip(Tail(line)) ELSE line

RECURSIVE RStrip(_)
RStrip(line) ==
    IF Len(line) > 0 /\ line[Len(line)].t = "ws"
    THEN RStrip(SubSeq(line, 1, Len(line) - 1))
    ELSE line

\* line.strip()
Strip(line) == LStrip(RStrip(line))

RECURSIVE Join(_)
\* '\n'.join(lines): the lines' tokens, a line break (blank space) between
\* two lines.
Join(lines) ==
    IF Len(lines) = 0 THEN <<>>
    ELSE IF Len(lines) = 1 THEN lines[1]
    ELSE lines[1] \o <<WS>> \o Join(Tail(lines))

\* The empty str, as content: ''.split('\n') is [''].
EmptyText == << <<>> >>

\* bool(content) of a str.
NonEmptyText(content) == content # EmptyText

\* ------------------------------------------------------------------ call extractor

\* What one decoded text adds to tool_calls (lines 216-218, 229-231): the
\* pair (parsed["name"], parsed["arguments"]) of a dict holding both keys.
NameAndArguments(ms) ==
    IF HasMember(ms, "name") /\ HasMember(ms, "arguments")
    THEN <<[name |-> LastMember(ms, "name"), arguments |-> LastMember(ms, "arguments")]>>
    ELSE <<>>

CallsOf(parsed) ==
    IF parsed.st = "ok" /\ IsDict(parsed.val)
    THEN NameAndArguments(Members(parsed.val))
    ELSE <<>>

\* The state of the scan over the lines before any line is read.
ScanStart ==
    [in_code_block |-> FALSE, json_lines |-> <<>>, tool_calls |-> <<>>, raised |-> FALSE]

\* Lines 213-221: the block closes and json_str was decoded to `parsed`.
\* Only json.JSONDecodeError is caught (line 219).
CloseBlock(s, parsed) ==
    [s EXCEPT !.in_code_block = FALSE,
              !.tool_calls = @ \o CallsOf(parsed),
              !.raised = (parsed.st = "rec")]

ScanStripped_NoRestart(s, line) ==
    IF s.raised THEN s
    ELSE IF line = <<Fence("json")>>
    THEN [s EXCEPT !.in_code_block = TRUE]
    ELSE IF line = <<Fence("")>> /\ s.in_code_block
    THEN CloseBlock(s, json_loads(Join(s.json_lines)))
    ELSE IF s.in_code_block
    THEN [s EXCEPT !.json_lines = Append(@, line)]
    ELSE s

\* Lines 207-224 on the stripped line.
ScanStripped(s, line) ==
    IF s.raised THEN s
    ELSE IF line = <<Fence("json")>>
    THEN [s EXCEPT !.in_code_block = TRUE, !.json_lines = <<>>]
    ELSE IF line = <<Fence("")>> /\ s.in_code_block
    THEN CloseBlock(s, json_loads(Join(s.json_lines)))
    ELSE IF s.in_code_block
    THEN [s EXCEPT !.json_lines = Append(@, line)]
    ELSE s

\* One turn of the for loop (lines 204-224) on the line `raw`.
ScanLine(s, raw) == ScanStripped(s, Strip(raw))

RECURSIVE ScanLines(_, _, _)
\* The for loop over lines[i..].
ScanLines(s, lines, i) ==
    IF i > Len(lines) THEN s
    ELSE CHOOSE out \in {ScanLines(t, lines, i + 1) : t \in {ScanLine(s, lines[i])}} : TRUE

\* Method 2 (lines 199-224): the calls of the fenced JSON blocks.
FencedScan(content) == ScanLines(ScanStart, content, 1)

\* Method 3 (lines 226-233): the whole content as one JSON object, tried
\* when the fenced blocks gave no call.
BareScan(content) == json_loads(Join(content))

\* _parse_tool_calls_from_response(content): [raised, calls]; raised when an
\* exception leaves the function, calls is then empty.
AfterBare(b) ==
    IF b.st = "rec" THEN [raised |-> TRUE, calls |-> <<>>]
    ELSE [raised |-> FALSE, calls |-> CallsOf(b)]

AfterFenced_FencedOnly(f, content) ==
    [raised |-> f.raised, calls |-> IF f.raised THEN <<>> ELSE f.tool_calls]

AfterFenced(f, content) ==
    IF f.raised THEN [raised |-> TRUE, calls |-> <<>>]
    ELSE IF f.tool_calls # <<>> THEN [raised |-> FALSE, calls |-> f.tool_calls]
    ELSE AfterBare(BareScan(content))

parse_tool_calls_from_response(content) == AfterFenced(FencedScan(content), content)

\* ------------------------------------------------------------------ tool executor

ToolCallResult(tool_name, arguments, success, error) ==
    [tool_name |-> tool_name, arguments |-> arguments, success |-> success, error |-> error]

\* error = None
NoError == <<>>
Error(msg) == <<Word(msg)>>

eval_NothingEvaluates(expression) == "raises"

\* eval(expression) of a str (line 181): "value" when Python evaluates the
\* text to a value, "raises" when the evaluation raises.  The text is run as
\* Python code, whatever it is.
eval(expression) ==
    CASE expression = "2 + 2" -> "value"
      [] expression = "(1 + 2) * 3" -> "value"
      [] expression = "__import__('os').getcwd()" -> "value"
      [] expression = "not_a_number + 5" -> "raises"
      [] expression = "1 / 0" -> "raises"
      [] OTHER -> "raises"

\* One branch of lines 152-172: every argument named in `required` must be
\* truthy once read with arguments.get(name, "").
CheckRequired(tool_name, arguments, required, missing) ==
    IF \E key \in required : ~Truthy(DictGet(arguments, key, PyStr("")))
    THEN ToolCallResult(tool_name, arguments, FALSE, Error(missing))
    ELSE ToolCallResult(tool_name, arguments, TRUE, NoError)

Evaluate_Trusting(tool_name, arguments, expression) ==
    IF ~Truthy(expression)
    THEN ToolCallResult(tool_name, arguments, FALSE, Error("Missing expression"))
    ELSE ToolCallResult(tool_name, arguments, TRUE, NoError)

\* Lines 177-184.
Evaluate(tool_name, arguments, expression) ==
    IF ~Truthy(expression)
    THEN ToolCallResult(tool_name, arguments, FALSE, Error("Missing expression"))
    ELSE IF IsStr(expression) /\ eval(expression[1].v) = "value"
    THEN ToolCallResult(tool_name, arguments, TRUE, NoError)
    ELSE ToolCallResult(tool_name, arguments, FALSE, Error("Invalid expression"))

\* Lines 174-184.
Calculate(tool_name, arguments) ==
    Evaluate(tool_name, arguments, DictGet(arguments, "expression", PyStr("")))

BuiltinTools == {"write_file", "read_file", "run_command", "calculate"}

IsBuiltin_AnyStr(tool_name) == IsStr(tool_name)

\* tool_name names one of the four built-in tools.
IsBuiltin(tool_name) == IsStr(tool_name) /\ tool_name[1].v \in BuiltinTools

\* _execute_tool_call(tool_name, arguments), lines 149-190.
execute_tool_call(tool_name, arguments) ==
    IF ~IsBuiltin(tool_name)
    THEN ToolCallResult(tool_name, arguments, FALSE, Error("Unknown tool: ") \o tool_name)
    ELSE IF ~IsDict(arguments)
    \* arguments.get raises AttributeError, caught at line 189
    THEN ToolCallResult(tool_name, arguments, FALSE, Error("object has no attribute 'get'"))
    ELSE CASE tool_name = PyStr("write_file") ->
                CheckRequired(tool_name, arguments, {"path", "content"}, "Missing path or content")
           [] tool_name = PyStr("read_file") ->
                CheckRequired(tool_name, arguments, {"path"}, "Missing path")
           [] tool_name = PyStr("run_command") ->
                CheckRequired(tool_name, arguments, {"command"}, "Missing command")
           [] OTHER -> Calculate(tool_name, arguments)

\* ------------------------------------------------------------------ result evaluator

Called_WithoutArguments(tool, calls) ==
    \E n \in 1..Len(calls) : calls[n].tool_name = tool /\ calls[n].arguments = EmptyDict

\* tool in called_tools
Called(tool, calls) == \E n \in 1..Len(calls) : calls[n].tool_name = tool

NoneExpected_AlwaysPass(calls) == "PASS"

\* Line 368: no tool is expected.
NoneExpected(calls) == IF calls # <<>> THEN "PASS" ELSE "FAIL"

SomeMissing_NeverPartial(calls) == "FAIL"

\* Lines 370-372: an expected tool was not called.
SomeMissing(calls) == IF calls # <<>> THEN "PARTIAL" ELSE "FAIL"

AllCalled_IgnoresFailures(calls) == "PASS"

\* Lines 375-379: every expected tool was called.
AllCalled(calls) ==
    LET failed_calls == SelectSeq(calls, LAMBDA tc : ~tc.success) IN
    IF failed_calls # <<>> THEN "PARTIAL" ELSE "PASS"

\* _evaluate_test_result(test_case, tool_calls, content), lines 359-379.
evaluate_test_result(test_case, calls, text) ==
    LET expected_tools == test_case.expected_tools
        missing_tools == SelectSeq(expected_tools, LAMBDA tool : ~Called(tool, calls))
    IN  IF expected_tools = <<>> THEN NoneExpected(calls)
        ELSE IF missing_tools # <<>> THEN SomeMissing(calls)
        ELSE AllCalled(calls)

\* ------------------------------------------------------------------ test cases

TestCase(name, system_prompt, user_message, expected_tools) ==
    [name |-> name, system_prompt |-> system_prompt,
     user_message |-> user_message, expected_tools |-> expected_tools]

HelperPrompt == "You are a helpful assistant that can use tools to complete tasks."

\* get_test_cases(), lines 382-438.
get_test_cases ==
    << TestCase("basic_tool_call", HelperPrompt, "Calculate 2 + 2",
                <<PyStr("calculate")>>),
       TestCase("sequential_tool_calls", HelperPrompt,
                "Write 'Hello World' to a file called hello.txt, then read it back",
                <<PyStr("write_file"), PyStr("read_file")>>),
       TestCase("complex_workflow", HelperPrompt,
                "Create a Python script that prints 'Hello World', save it as hello.py, then run it",
                <<PyStr("write_file"), PyStr("run_command")>>),
       TestCase("error_handling", HelperPrompt,
                "Read a file that doesn't exist: /nonexistent/file.txt",
                <<PyStr("read_file")>>),
       TestCase("parameter_validation", HelperPrompt,
                "Calculate the result of an invalid expression: 'not_a_number + 5'",
                <<PyStr("calculate")>>),
       TestCase("no_tools_needed", HelperPrompt, "What is the capital of France?",
                <<>>) >>

\* ------------------------------------------------------------------ state

VARIABLES
    pc,          \* where the program is: "idle" (run_test not yet called),
                 \* "await" (a chat request is in flight), "done" (run_test
                 \* returned), "raised" (an exception left run_test),
                 \* "finished" (run_all_tests returned), "exited" (main
                 \* called sys.exit); "call" and "returned" around a
                 \* function applied on its own
    case,        \* index in get_test_cases of run_test's test_case
    messages,    \* run_test's transcript
    tool_calls,  \* run_test's collected ToolCallResults
    iteration,   \* run_test's loop counter
    content,     \* run_test's content: the last assistant text
    sent,        \* chat requests sent by this run_test call
    response,    \* what the last chat request returned
    exit,        \* how run_test left its loop: "none" while it runs,
                 \* "failure", "break", "cap" or "raised"
    ret,         \* the TestResult run_test returned
    results,     \* run_all_tests' results, in insertion order
    budget,      \* the endpoint: fresh responses it may still choose
    looping,     \* the endpoint: stuck repeating its last response
    input,       \* the argument of a function applied on its own
    output       \* and what the function returned; for main, the code
                 \* it handed to sys.exit

vars == <<pc, case, messages, tool_calls, iteration, content, sent, response,
          exit, ret, results, budget, looping, input, output>>

\* max_iterations, line 277
max_iterations == 10

\* ------------------------------------------------------------------ conversation driver

Message(role, text) == [role |-> role, content |-> text]

TestResult(test_name, result, calls, response_content, notes) ==
    [test_name |-> test_name, result |-> result, tool_calls |-> calls,
     response_content |-> response_content, notes |-> notes]

\* No TestResult yet.
NoResult == TestResult("", "SKIP", <<>>, EmptyText, "")

\* _send_chat_request returned None (lines 254-262).
NoResponse == [ok |-> FALSE, content |-> EmptyText, tool_calls |-> <<>>]

\* response.json() of a 200 answer: the assistant message's content and
\* tool_calls (lines 295-297).
Response(text, api_tool_calls) == [ok |-> TRUE, content |-> text, tool_calls |-> api_tool_calls]

\* The tool-result turn of lines 321-324 and 335-338.
ToolMessage(tool_name, result) ==
    Message("tool",
            << <<Word("Tool")>> \o tool_name
               \o (IF result.success
                   THEN <<Word("executed successfully")>>
                   ELSE <<Word("failed:")>> \o result.error) >>)

\* The tokens of the text of a str value.
Lex(s) ==
    CASE s = "{\"expression\": \"2 + 2\"}" ->
            <<LBrace, Str("expression"), Colon, Str("2 + 2"), RBrace>>
      [] s = "{\"expression\": " -> <<LBrace, Str("expression"), Colon>>
      [] s = "'[' * 100000" -> <<Deep>>
      [] s = "" -> <<>>
      [] OTHER -> <<Word(s)>>

\* Lines 317-324 and 331-338: execute one call, record it, add its turn.
Record_NoTurn(s, tool_name, result) ==
    [s EXCEPT !.tool_calls = Append(@, result)]

Record_First(s, tool_name, result) ==
    [s EXCEPT !.tool_calls = <<result>> \o @,
              !.messages = Append(@, ToolMessage(tool_name, result))]

Record(s, tool_name, result) ==
    [s EXCEPT !.tool_calls = Append(@, result),
              !.messages = Append(@, ToolMessage(tool_name, result))]

RunCall(s, tool_name, arguments) ==
    Record(s, tool_name, execute_tool_call(tool_name, arguments))

\* One turn of the loop over api_tool_calls (lines 307-324).  A tool_call or
\* a function that is no dict has no .get: AttributeError leaves run_test.
\* Lines 311-315: arguments that are a str are decoded; a str that does not
\* decode (json.JSONDecodeError) becomes {}.
DecodeArguments(arguments) ==
    IF IsStr(arguments) THEN json_loads(Lex(arguments[1].v))
    ELSE [st |-> "ok", val |-> arguments]

\* Lines 311-324, once the arguments are decoded.
ApiDecoded(s, tool_name, decoded) ==
    IF decoded.st = "rec" THEN [s EXCEPT !.raised = TRUE]
    ELSE RunCall(s, tool_name, IF decoded.st = "ok" THEN decoded.val ELSE EmptyDict)

\* Lines 308-324 on tool_call.get("function", {}).
ApiFunction(s, function) ==
    IF ~IsDict(function) THEN [s EXCEPT !.raised = TRUE]
    ELSE ApiDecoded(s, DictGet(function, "name", PyStr("")),
                    DecodeArguments(DictGet(function, "arguments", EmptyDict)))

ApiCall(s, tool_call) ==
    IF s.raised THEN s
    ELSE IF ~IsDict(tool_call) THEN [s EXCEPT !.raised = TRUE]
    ELSE ApiFunction(s, DictGet(tool_call, "function", EmptyDict))

RECURSIVE ApiCalls(_, _, _)
ApiCalls(s, api_tool_calls, i) ==
    IF i > Len(api_tool_calls) THEN s
    ELSE CHOOSE out \in {ApiCalls(t, api_tool_calls, i + 1) :
                             t \in {ApiCall(s, api_tool_calls[i])}} : TRUE

RECURSIVE ParsedCalls(_, _, _)
\* The loop over parsed_calls (lines 330-338).
ParsedCalls(s, parsed_calls, i) ==
    IF i > Len(parsed_calls) THEN s
    ELSE CHOOSE out \in {ParsedCalls(t, parsed_calls, i + 1) :
                             t \in {RunCall(s, parsed_calls[i].name,
                                             parsed_calls[i].arguments)}} : TRUE

\* Lines 295-344 on a response: the transcript and the calls after it,
\* whether the loop breaks, whether an exception leaves run_test.
HandleParsed_Breaks(s, p) ==
    IF p.raised THEN [s EXCEPT !.raised = TRUE]
    ELSE IF p.calls # <<>> THEN [ParsedCalls(s, p.calls, 1) EXCEPT !.break = TRUE]
    ELSE [s EXCEPT !.break = TRUE]

\* Lines 328-341, parsed_calls being p.calls.
HandleParsed(s, p) ==
    IF p.raised THEN [s EXCEPT !.raised = TRUE]
    ELSE IF p.calls # <<>> THEN ParsedCalls(s, p.calls, 1)
    ELSE [s EXCEPT !.break = TRUE]

HandleCalls_Merged(s, r) ==
    IF NonEmptyText(r.content)
    THEN HandleParsed(ApiCalls(s, r.tool_calls, 1), parse_tool_calls_from_response(r.content))
    ELSE IF r.tool_calls # <<>> THEN ApiCalls(s, r.tool_calls, 1)
    ELSE [s EXCEPT !.break = TRUE]

\* Lines 305-344, the assistant turn being in s.messages.
HandleCalls(s, r) ==
    IF r.tool_calls # <<>> THEN ApiCalls(s, r.tool_calls, 1)
    ELSE IF NonEmptyText(r.content)
    THEN HandleParsed(s, parse_tool_calls_from_response(r.content))
    ELSE [s EXCEPT !.break = TRUE]

HandleResponse(msgs, calls, r) ==
    HandleCalls([messages |-> Append(msgs, Message("assistant", r.content)),
                 tool_calls |-> calls, raised |-> FALSE, break |-> FALSE], r)

LoopGoesOn_Inclusive(n) == n <= max_iterations

\* The while condition of line 280, read after `iteration` turns.
LoopGoesOn(n) == n < max_iterations

\* run_test up to its first chat request (lines 264-282).
StartRun ==
    /\ pc = "idle"
    /\ pc' = "await"
    /\ messages' = << Message("system", << <<Word(get_test_cases[case].system_prompt)>> >>),
                      Message("user", << <<Word(get_test_cases[case].user_message)>> >>) >>
    /\ tool_calls' = <<>>
    /\ iteration' = 1
    /\ sent' = 1
    /\ exit' = "none"
    /\ UNCHANGED <<case, content, response, ret, results, budget, looping, input, output>>

Failed_Evaluates ==
    /\ pc' = "done"
    /\ exit' = "failure"
    /\ ret' = TestResult(get_test_cases[case].name,
                         evaluate_test_result(get_test_cases[case], tool_calls, EmptyText),
                         tool_calls, EmptyText, "Failed to get response from API")
    /\ UNCHANGED <<messages, tool_calls, iteration, content, sent>>

Failed_Retries ==
    IF LoopGoesOn(iteration)
    THEN /\ pc' = "await"
         /\ iteration' = iteration + 1
         /\ sent' = sent + 1
         /\ UNCHANGED <<messages, tool_calls, content, exit, ret>>
    ELSE /\ pc' = "done"
         /\ exit' = "failure"
         /\ ret' = TestResult(get_test_cases[case].name, "FAIL", tool_calls, EmptyText,
                              "Failed to get response from API")
         /\ UNCHANGED <<messages, tool_calls, iteration, content, sent>>

\* Lines 284-293: no response, run_test returns FAIL at once.
Failed ==
    /\ pc' = "done"
    /\ exit' = "failure"
    /\ ret' = TestResult(get_test_cases[case].name, "FAIL", tool_calls, EmptyText,
                         "Failed to get response from API")
    /\ UNCHANGED <<messages, tool_calls, iteration, content, sent>>

Evaluated_CapFails(how, calls, text) ==
    /\ pc' = "done"
    /\ exit' = how
    /\ ret' = TestResult(get_test_cases[case].name,
                         IF how = "cap" THEN "FAIL"
                         ELSE evaluate_test_result(get_test_cases[case], calls, text),
                         calls, text, "")
    /\ UNCHANGED <<iteration, sent>>

\* Lines 346-357: evaluate and return.
Evaluated(how, calls, text) ==
    /\ pc' = "done"
    /\ exit' = how
    /\ ret' = TestResult(get_test_cases[case].name,
                         evaluate_test_result(get_test_cases[case], calls, text),
                         calls, text, "")
    /\ UNCHANGED <<iteration, sent>>

\* run_test from the return of a chat request to the next request, or to
\* its own return (lines 284-357).
Reply(r) ==
    /\ pc = "await"
    /\ response' = r
    /\ IF ~r.ok THEN Failed
       ELSE \E s \in {HandleResponse(messages, tool_calls, r)} :
            /\ messages' = s.messages
            /\ tool_calls' = s.tool_calls
            /\ content' = r.content
            /\ IF s.raised
               THEN pc' = "raised" /\ exit' = "raised" /\ UNCHANGED <<iteration, sent, ret>>
               ELSE IF s.break THEN Evaluated("break", s.tool_calls, r.content)
               ELSE IF LoopGoesOn(iteration)
               THEN /\ iteration' = iteration + 1
                    /\ sent' = sent + 1
                    /\ pc' = "await"
                    /\ UNCHANGED <<exit, ret>>
               ELSE Evaluated("cap", s.tool_calls, r.content)
    /\ UNCHANGED <<case, results, input, output>>

\* ------------------------------------------------------------------ texts and responses

\* {"name": name, "arguments": arguments}
CallObject(name, arguments) ==
    <<LBrace, Str("name"), Colon, Str(name), Comma, Str("arguments"), Colon>>
        \o arguments \o <<RBrace>>

\* {key: "value"}
Dict1(key, value) == <<LBrace, Str(key), Colon, Str(value), RBrace>>
\* {key1: "value1", key2: "value2"}
Dict2(key1, value1, key2, value2) ==
    <<LBrace, Str(key1), Colon, Str(value1), Comma, Str(key2), Colon, Str(value2), RBrace>>

\* {"function": {"name": name, "arguments": arguments}}
ApiToolCall(name, arguments) ==
    <<LBrace, Str("function"), Colon>> \o CallObject(name, arguments) \o <<RBrace>>

TwoPlusTwo == Dict1("expression", "2 + 2")

OpenLine == <<Fence("json")>>
PaddedOpenLine == <<WS, Fence("json"), WS>>
CloseLine == <<Fence("")>>
ProseLine == <<Word("The capital of France is Paris.")>>
CallLine == CallObject("calculate", TwoPlusTwo)
HeadLine == <<LBrace, Str("name"), Colon, Str("calculate"), Comma>>
TailLine == <<Str("arguments"), Colon>> \o TwoPlusTwo \o <<RBrace>>
NoArgumentsLine == <<LBrace, Str("name"), Colon, Str("calculate"), RBrace>>
NumberLine == <<Num("42")>>
DeepLine == <<Deep>>

\* The lines a text handed to the call extractor is made of.
Lines ==
    {OpenLine, PaddedOpenLine, CloseLine, ProseLine, CallLine, HeadLine, TailLine,
     NoArgumentsLine, NumberLine, DeepLine}

\* The texts of at most MaxLines lines.
Texts == UNION {[1..n -> Lines] : n \in 1..MaxLines}

\* The assistant answers in prose and calls no tool.
PlainText == Response(<<ProseLine>>, <<>>)

\* The responses the endpoint chooses from.
Responses ==
    { \* no content, no call
      Response(EmptyText, <<>>),
      \* one fenced call
      Response(<<ProseLine, OpenLine, CallLine, CloseLine>>, <<>>),
      \* two fenced calls: run_command, then a tool that does not exist
      Response(<<OpenLine, CallObject("run_command", Dict1("command", "python hello.py")),
                 CloseLine, ProseLine, OpenLine,
                 CallObject("delete_file", Dict1("path", "hello.py")), CloseLine>>, <<>>),
      \* one bare call
      Response(<<CallLine>>, <<>>),
      \* a fenced block that is never closed
      Response(<<OpenLine, CallLine>>, <<>>),
      \* a fenced block nested too deep to decode
      Response(<<OpenLine, DeepLine, CloseLine>>, <<>>),
      \* one API call
      Response(EmptyText, <<ApiToolCall("calculate", TwoPlusTwo)>>),
      \* two API calls: write_file with its arguments, read_file without
      Response(<<ProseLine>>,
               <<ApiToolCall("write_file", Dict2("path", "hello.txt", "content", "Hello World")),
                 ApiToolCall("read_file", EmptyDict)>>),
      \* an API call with its arguments encoded as a str, beside a fenced call
      Response(<<OpenLine, CallObject("read_file", Dict1("path", "hello.txt")), CloseLine>>,
               <<ApiToolCall("calculate", PyStr("{\"expression\": \"2 + 2\"}"))>>),
      \* an API call whose encoded arguments do not decode
      Response(EmptyText, <<ApiToolCall("calculate", PyStr("{\"expression\": "))>>),
      \* an API call of calculate on an expression that does not evaluate
      Response(EmptyText,
               <<ApiToolCall("calculate", Dict1("expression", "not_a_number + 5"))>>) }

\* ------------------------------------------------------------------ the endpoint

\* The request fails: _send_chat_request returns None.
ReplyFailure ==
    /\ ~looping
    /\ Reply(NoResponse)
    /\ UNCHANGED <<budget, looping>>

\* The assistant answers in plain prose.
ReplyPlain ==
    /\ ~looping
    /\ Reply(PlainText)
    /\ UNCHANGED <<budget, looping>>

\* The endpoint chooses a fresh response, and may get stuck on it.
ReplyFresh(menu) ==
    /\ ~looping
    /\ budget > 0
    /\ \E r \in menu, stuck \in BOOLEAN :
          /\ Reply(r)
          /\ looping' = (stuck /\ pc' = "await")
    /\ budget' = budget - 1

\* The endpoint repeats its last response.
ReplyAgain ==
    /\ looping
    /\ Reply(response)
    /\ looping' = (pc' = "await")
    /\ UNCHANGED budget

\* ------------------------------------------------------------------ one run of run_test

Idle ==
    /\ messages = <<>>
    /\ tool_calls = <<>>
    /\ iteration = 0
    /\ content = EmptyText
    /\ sent = 0
    /\ response = NoResponse
    /\ exit = "none"
    /\ ret = NoResult
    /\ results = <<>>
    /\ looping = FALSE

Init ==
    /\ pc = "idle"
    /\ case \in 1..Len(get_test_cases)
    /\ Idle
    /\ budget = MaxVaried
    /\ input = <<>>
    /\ output = <<>>

Next ==
    \/ StartRun
    \/ ReplyFailure
    \/ ReplyPlain
    \/ ReplyFresh(Responses)
    \/ ReplyAgain

Spec == Init /\ [][Next]_vars

\* ------------------------------------------------------------------ the call extractor on its own

ParseInit ==
    /\ pc = "call"
    /\ case = 1
    /\ Idle
    /\ budget = 0
    /\ input \in Texts
    /\ output = [raised |-> FALSE, calls |-> <<>>]

ParseCall ==
    /\ pc = "call"
    /\ pc' = "returned"
    /\ output' = parse_tool_calls_from_response(input)
    /\ UNCHANGED <<input, case, messages, tool_calls, iteration, content, sent,
                   response, exit, ret, results, budget, looping>>

SpecParse == ParseInit /\ [][ParseCall]_vars

\* ------------------------------------------------------------------ the result evaluator on its own

\* The ToolCallResults a list handed to the evaluator is made of.
SomeCalls ==
    { ToolCallResult(PyStr(n), EmptyDict, ok, IF ok THEN NoError ELSE Error("failed")) :
        n \in BuiltinTools, ok \in BOOLEAN }

CallLists == UNION {[1..n -> SomeCalls] : n \in 0..MaxCalls}

EvalInit ==
    /\ pc = "call"
    /\ case = 1
    /\ Idle
    /\ budget = 0
    /\ input \in [test_case : {get_test_cases[n] : n \in 1..Len(get_test_cases)},
                  tool_calls : CallLists]
    /\ output = "SKIP"

EvalCall ==
    /\ pc = "call"
    /\ pc' = "returned"
    /\ output' = evaluate_test_result(input.test_case, input.tool_calls, EmptyText)
    /\ UNCHANGED <<input, case, messages, tool_calls, iteration, content, sent,
                   response, exit, ret, results, budget, looping>>

SpecEval == EvalInit /\ [][EvalCall]_vars

\* ------------------------------------------------------------------ run_all_tests

\* The responses the endpoint chooses from while the suite runs.
SuiteResponses ==
    { Response(<<ProseLine, OpenLine, CallLine, CloseLine>>, <<>>),
      Response(EmptyText,
               <<ApiToolCall("calculate", Dict1("expression", "not_a_number + 5"))>>) }

NextTest_StopsOnFailure ==
    /\ pc = "done"
    /\ results' = Append(results, ret)
    /\ IF case < Len(get_test_cases) /\ ret.notes = ""
       THEN pc' = "idle" /\ case' = case + 1
       ELSE pc' = "finished" /\ case' = case
    /\ messages' = <<>>
    /\ tool_calls' = <<>>
    /\ iteration' = 0
    /\ content' = EmptyText
    /\ sent' = 0
    /\ response' = NoResponse
    /\ exit' = "none"
    /\ ret' = NoResult
    /\ looping' = FALSE
    /\ UNCHANGED <<budget, input, output>>

NextTest_KeepsLocals ==
    /\ pc = "done"
    /\ results' = Append(results, ret)
    /\ IF case < Len(get_test_cases)
       THEN pc' = "idle" /\ case' = case + 1
       ELSE pc' = "finished" /\ case' = case
    /\ iteration' = 0
    /\ content' = EmptyText
    /\ sent' = 0
    /\ response' = NoResponse
    /\ exit' = "none"
    /\ ret' = NoResult
    /\ looping' = FALSE
    /\ UNCHANGED <<messages, tool_calls, budget, input, output>>

\* Lines 449-451: run_test returned; its result is stored under the test's
\* name and the loop moves to the next test case.  run_test's locals are gone.
NextTest ==
    /\ pc = "done"
    /\ results' = Append(results, ret)
    /\ IF case < Len(get_test_cases)
       THEN pc' = "idle" /\ case' = case + 1
       ELSE pc' = "finished" /\ case' = case
    /\ messages' = <<>>
    /\ tool_calls' = <<>>
    /\ iteration' = 0
    /\ content' = EmptyText
    /\ sent' = 0
    /\ response' = NoResponse
    /\ exit' = "none"
    /\ ret' = NoResult
    /\ looping' = FALSE
    /\ UNCHANGED <<budget, input, output>>

SuiteInit ==
    /\ pc = "idle"
    /\ case = 1
    /\ Idle
    /\ budget = MaxSuiteVaried
    /\ input = <<>>
    /\ output = <<>>

SuiteNext ==
    \/ StartRun
    \/ ReplyFailure
    \/ ReplyPlain
    \/ ReplyFresh(SuiteResponses)
    \/ ReplyAgain
    \/ NextTest

SpecSuite == SuiteInit /\ [][SuiteNext]_vars

\* The expected tools of the test case at index n of the catalog.
ExpectedOf(n) == get_test_cases[n].expected_tools

\* ------------------------------------------------------------------ main

Passed_WithPartial(res) == Len(SelectSeq(res, LAMBDA r : r.result \in {"PASS", "PARTIAL"}))

\* The number of results with TestStatus.PASS (line 523).
Passed(res) == Len(SelectSeq(res, LAMBDA r : r.result = "PASS"))

\* Lines 526-531.  passed >= total * 0.8 compares an int with a float; for
\* the totals of the model it agrees with 10 * passed >= 8 * total.
CodeFor(passed, total) ==
    IF passed = total THEN 0
    ELSE IF 10 * passed >= 8 * total THEN 1
    ELSE 2

\* Lines 518-531: run_all_tests returned, main exits with the code of the
\* results.
Main ==
    /\ pc = "finished"
    /\ pc' = "exited"
    /\ output' = CodeFor(Passed(results), Len(results))
    /\ UNCHANGED <<input, case, messages, tool_calls, iteration, content, sent,
                   response, exit, ret, results, budget, looping>>

\* Lines 536-538: an exception left run_test; run_all_tests does not catch
\* it, main's `except Exception` does and exits with 4.
Fault ==
    /\ pc = "raised"
    /\ pc' = "exited"
    /\ output' = 4
    /\ UNCHANGED <<input, case, messages, tool_calls, iteration, content, sent,
                   response, exit, ret, results, budget, looping>>

\* The responses the endpoint chooses from while main runs.
MainResponses ==
    { \* one fenced call
      Response(<<ProseLine, OpenLine, CallLine, CloseLine>>, <<>>),
      \* an API call whose arguments are a list, of a tool that reads them
      Response(EmptyText, <<ApiToolCall("calculate", <<LBrack, Num("2"), RBrack>>)>>),
      \* an API call whose function is a str
      Response(EmptyText, <<<<LBrace, Str("function"), Colon, Str("calculate"), RBrace>>>>),
      \* an API call whose arguments are a str of brackets nested too deep to
      \* decode
      Response(EmptyText, <<ApiToolCall("calculate", PyStr("'[' * 100000"))>>) }

MainInit ==
    /\ pc = "idle"
    /\ case = 1
    /\ Idle
    /\ budget = MaxSuiteVaried
    /\ input = <<>>
    /\ output = <<>>

MainNext ==
    \/ StartRun
    \/ ReplyFailure
    \/ ReplyPlain
    \/ ReplyFresh(MainResponses)
    \/ ReplyAgain
    \/ NextTest
    \/ Main
    \/ Fault

SpecMain == MainInit /\ [][MainNext]_vars

\* ------------------------------------------------------------------ main's exit code on its own

\* The tool_calls of a run of test case n in which the model called nothing
\* ("none"), called its first expected tool (or calculate) and failed
\* ("failed"), or called every expected tool (or calculate) with success
\* ("ok").
CallsFor(n, how) ==
    LET tools == IF ExpectedOf(n) = <<>> THEN <<PyStr("calculate")>> ELSE ExpectedOf(n) IN
    CASE how = "none" -> <<>>
      [] how = "failed" ->
            <<ToolCallResult(tools[1], EmptyDict, FALSE, Error("failed"))>>
      [] OTHER ->
            [k \in 1..Len(tools) |-> ToolCallResult(tools[k], EmptyDict, TRUE, NoError)]

\* The TestResult run_test returns for test case n when it stops normally
\* with these tool_calls (lines 346-357).
ResultFor(n, calls) ==
    TestResult(get_test_cases[n].name,
               evaluate_test_result(get_test_cases[n], calls, EmptyText),
               calls, EmptyText, "")

\* The results of completed suites.
SuiteResults ==
    { [n \in 1..Len(get_test_cases) |-> ResultFor(n, CallsFor(n, how[n]))] :
        how \in [1..Len(get_test_cases) -> {"none", "failed", "ok"}] }

ExitInit ==
    /\ pc = "finished"
    /\ case = Len(get_test_cases)
    /\ messages = <<>>
    /\ tool_calls = <<>>
    /\ iteration = 0
    /\ content = EmptyText
    /\ sent = 0
    /\ response = NoResponse
    /\ exit = "none"
    /\ ret = NoResult
    /\ results \in SuiteResults
    /\ looping = FALSE
    /\ budget = 0
    /\ input = <<>>
    /\ output = <<>>

SpecExit == ExitInit /\ [][Main]_vars

\* ------------------------------------------------------------------ the tool executor on its own

\* The call gets to line 181: calculate, with arguments that have .get and
\* an expression that is truthy.
ReachesEval(tool_name, arguments) ==
    /\ tool_name = PyStr("calculate")
    /\ IsDict(arguments)
    /\ Truthy(DictGet(arguments, "expression", PyStr("")))

\* No ToolCallResult: the call did not return.
NoToolCallResult == ToolCallResult(<<>>, <<>>, FALSE, NoError)

\* _execute_tool_call while a KeyboardInterrupt is delivered: at "entry",
\* before line 179, no handler catches it (line 189 catches Exception only)
\* and it leaves the function; at "eval", inside the try of lines 179-182, the
\* bare except of line 183 catches it and the call returns a failed result.
Interrupted(tool_name, arguments, at) ==
    IF at = "entry" THEN [raised |-> TRUE, result |-> NoToolCallResult]
    ELSE IF at = "eval" /\ ReachesEval(tool_name, arguments)
    THEN [raised |-> FALSE,
          result |-> ToolCallResult(tool_name, arguments, FALSE, Error("Invalid expression"))]
    ELSE [raised |-> FALSE, result |-> execute_tool_call(tool_name, arguments)]

\* The tool names handed to the executor: the built-in ones, two that name
\* no tool, one that is no str.
ToolNames ==
    {PyStr(n) : n \in BuiltinTools \cup {"delete_file", ""}} \cup {<<Num("7")>>}

\* The expressions handed to calculate.
Expressions ==
    {"2 + 2", "(1 + 2) * 3", "1 / 0", "not_a_number + 5", "__import__('os').getcwd()", ""}

\* The arguments handed to the executor.
Arguments ==
    { EmptyDict,
      Dict1("path", "hello.txt"),
      Dict1("path", ""),
      Dict1("content", "Hello World"),
      Dict2("path", "hello.txt", "content", "Hello World"),
      Dict2("path", "hello.txt", "content", ""),
      Dict1("command", "python hello.py"),
      Dict1("command", ""),
      <<LBrace, Str("command"), Colon, Num("0"), RBrace>>,
      <<LBrace, Str("expression"), Colon, Num("5"), RBrace>>,
      \* no dict: a list, a str, a number, None
      <<LBrack, Num("2"), RBrack>>,
      PyStr("2 + 2"),
      <<Num("2")>>,
      <<Tok("lit", "null")>> }
    \cup {Dict1("expression", e) : e \in Expressions}

ExecInit ==
    /\ pc = "call"
    /\ case = 1
    /\ Idle
    /\ budget = 0
    /\ input \in [tool_name : ToolNames, arguments : Arguments,
                  interrupt : {"none", "entry", "eval"}]
    /\ output = [raised |-> FALSE, result |-> NoToolCallResult]

ExecCall ==
    /\ pc = "call"
    /\ pc' = "returned"
    /\ output' = Interrupted(input.tool_name, input.arguments, input.interrupt)
    /\ UNCHANGED <<input, case, messages, tool_calls, iteration, content, sent,
                   response, exit, ret, results, budget, looping>>

SpecExec == ExecInit /\ [][ExecCall]_vars

\* ================================================================== claims

\* seq is the beginning of longer.
IsPrefix(seq, longer) ==
    Len(seq) <= Len(longer) /\ SubSeq(longer, 1, Len(seq)) = seq

\* The turns of the transcript with the given role.
Turns(msgs, role) == SelectSeq(msgs, LAMBDA m : m.role = role)

\* C1: in one run of run_test the number of chat requests sent never exceeds
\* the round-trip cap of 10, whatever the model answers.
C1_RoundTripsWithinCap == sent <= max_iterations

\* C1 witness: a run that ended at the cap, every response having yielded at
\* least one call.
C1_CapReached ==
    /\ pc = "done"
    /\ exit = "cap"
    /\ sent = max_iterations
    /\ Len(tool_calls) >= max_iterations

\* C2, as claimed: any two results of the suite with the same expected tools
\* and the same tool_calls carry the same verdict, however their runs ended.
C2_VerdictFunctionOfCalls ==
    \A a, b \in 1..Len(results) :
        (ExpectedOf(a) = ExpectedOf(b) /\ results[a].tool_calls = results[b].tool_calls)
            => results[a].result = results[b].result

\* C2, amended: a result of a run that stopped normally or reached the cap
\* (it carries no note) has the evaluator's verdict for its expected tools and
\* its tool_calls, so two such results that agree on both agree on the
\* verdict; a result of a run ended by a transport failure (it carries the
\* note) is FAIL whatever its tool_calls are.
C2_VerdictByEnding ==
    /\ \A a \in 1..Len(results) :
          IF results[a].notes = ""
          THEN results[a].result =
                  evaluate_test_result(get_test_cases[a], results[a].tool_calls, EmptyText)
          ELSE results[a].result = "FAIL"
    /\ \A a, b \in 1..Len(results) :
          (/\ results[a].notes = ""
           /\ results[b].notes = ""
           /\ ExpectedOf(a) = ExpectedOf(b)
           /\ results[a].tool_calls = results[b].tool_calls)
              => results[a].result = results[b].result
    /\ pc = "done" =>
          /\ exit = "failure" <=> ret.notes # ""
          /\ exit \in {"failure", "break", "cap"}

\* C2 witness: two results with the same expected tools and the same
\* non-empty tool_calls, one of a run that stopped normally and one of a run
\* that reached the cap or failed after its calls.
C2_TwoResultsSameCalls ==
    \E a, b \in 1..Len(results) :
        /\ a # b
        /\ ExpectedOf(a) = ExpectedOf(b)
        /\ results[a].tool_calls = results[b].tool_calls
        /\ results[a].tool_calls # <<>>
        /\ results[a].notes = ""
        /\ results[b].notes # ""

\* C3, as claimed: for a test case that expects no tool, a model turn of
\* plain text without any call ends the run with no ToolCallResult and the
\* verdict PASS.
C3_NoToolsNeededPasses ==
    (/\ pc = "done"
     /\ ExpectedOf(case) = <<>>
     /\ sent = 1
     /\ response = PlainText)
        => (ret.tool_calls = <<>> /\ ret.result = "PASS")

SomeExpectedAbsent ==
    \E e \in 1..Len(input.test_case.expected_tools) :
        \A n \in 1..Len(input.tool_calls) :
            input.tool_calls[n].tool_name # input.test_case.expected_tools[e]

\* C5: when some expected tool is absent from the called tools the evaluator
\* returns PARTIAL if any call was made and FAIL if none was.
C5_SomeExpectedMissing ==
    (pc = "returned" /\ SomeExpectedAbsent)
        => output = (IF Len(input.tool_calls) = 0 THEN "FAIL" ELSE "PARTIAL")

\* C5 witness: two tools expected, one of them called with success, verdict
\* PARTIAL.
C5_PartialOnMissing ==
    /\ pc = "returned"
    /\ SomeExpectedAbsent
    /\ \E e \in 1..Len(input.test_case.expected_tools) :
          \E n \in 1..Len(input.tool_calls) :
              /\ input.tool_calls[n].tool_name = input.test_case.expected_tools[e]
              /\ input.tool_calls[n].success
    /\ output = "PARTIAL"

\* C6: when tools are expected and all of them were called the evaluator
\* returns PASS exactly when every recorded call succeeded, and PARTIAL
\* otherwise.
C6_AllExpectedCalled ==
    (/\ pc = "returned"
     /\ input.test_case.expected_tools # <<>>
     /\ ~SomeExpectedAbsent)
        => output = (IF \A n \in 1..Len(input.tool_calls) : input.tool_calls[n].success
                     THEN "PASS" ELSE "PARTIAL")

\* C6 witness: every expected tool called with success, a call of a tool
\* that was not expected failed, verdict PARTIAL.
C6_UnexpectedFailureCounts ==
    /\ pc = "returned"
    /\ input.test_case.expected_tools # <<>>
    /\ ~SomeExpectedAbsent
    /\ \E n \in 1..Len(input.tool_calls) :
          /\ ~input.tool_calls[n].success
          /\ \A e \in 1..Len(input.test_case.expected_tools) :
                input.tool_calls[n].tool_name # input.test_case.expected_tools[e]
    /\ \A n \in 1..Len(input.tool_calls) :
          (\E e \in 1..Len(input.test_case.expected_tools) :
              input.tool_calls[n].tool_name = input.test_case.expected_tools[e])
              => input.tool_calls[n].success
    /\ output = "PARTIAL"

\* C7: when a chat request returns no response, run_test returns at once
\* with FAIL and a note, having sent no further request and executed no
\* further call; nothing of the run changes afterwards.
C7_FailureEndsRun ==
    [][ /\ (pc = "await" /\ ~response'.ok) =>
              /\ pc' = "done"
              /\ ret'.result = "FAIL"
              /\ ret'.notes # ""
              /\ ret'.tool_calls = tool_calls
              /\ sent' = sent
              /\ tool_calls' = tool_calls
              /\ messages' = messages
        /\ (pc = "done" /\ exit = "failure") =>
              (sent' = sent /\ tool_calls' = tool_calls /\ ret' = ret) ]_vars

\* C7 witness: a request failed after earlier turns had executed calls.
C7_FailedAfterCalls ==
    /\ pc = "done"
    /\ exit = "failure"
    /\ ~response.ok
    /\ sent >= 2
    /\ tool_calls # <<>>
    /\ ret.result = "FAIL"

\* The response carries no API call and its text is empty or yields no call.
NoCallIn(r) ==
    /\ r.tool_calls = <<>>
    /\ \/ r.content = EmptyText
       \/ parse_tool_calls_from_response(r.content).calls = <<>>

\* C8: after a successful response below the cap, no further request is sent
\* exactly when the response carries no API call and its text is empty or
\* yields no call (the loop then breaks, unless the extractor raised); a
\* response that yields a call is followed by one more round-trip.
C8_StopsExactlyWithoutCalls ==
    [][ (pc = "await" /\ response'.ok /\ iteration < max_iterations) =>
            /\ (sent' = sent) <=> NoCallIn(response')
            /\ NoCallIn(response') => (pc' \in {"done", "raised"}
                                       /\ (pc' = "done" => exit' = "break"))
            /\ ~NoCallIn(response') => (pc' = "await" /\ sent' = sent + 1
                                        /\ Len(tool_calls') > Len(tool_calls)) ]_vars

\* C8 witness: the run went on after a response with calls and then broke
\* on one without.
C8_WentOnThenBroke ==
    /\ pc = "done"
    /\ exit = "break"
    /\ sent >= 2
    /\ tool_calls # <<>>
    /\ NoCallIn(response)

\* C9: the transcript starts as [system, user] and only grows; a successful
\* round-trip appends one assistant turn and then one tool turn per call it
\* executed, a failed one appends nothing; the tool turns are, in order, the
\* turns of the collected ToolCallResults.
C9_TranscriptAppendOnly ==
    [][ /\ IsPrefix(messages, messages')
        /\ pc = "idle" =>
              (Len(messages') = 2 /\ messages'[1].role = "system"
               /\ messages'[2].role = "user")
        /\ (pc = "await" /\ response'.ok) =>
              /\ Len(messages') = Len(messages) + 1 + (Len(tool_calls') - Len(tool_calls))
              /\ messages'[Len(messages) + 1] = Message("assistant", response'.content)
              /\ \A k \in (Len(messages) + 2)..Len(messages') : messages'[k].role = "tool"
        /\ (pc = "await" /\ ~response'.ok) => messages' = messages
        /\ IsPrefix(tool_calls, tool_calls')
        /\ Len(Turns(messages', "tool")) = Len(tool_calls')
        /\ \A k \in 1..Len(tool_calls') :
              Turns(messages', "tool")[k] = ToolMessage(tool_calls'[k].tool_name, tool_calls'[k])
      ]_vars

\* C9 witness: two assistant turns, the first followed by the tool turns of
\* its two calls.
C9_TwoCallsOneTurn ==
    /\ Len(messages) >= 6
    /\ messages[3].role = "assistant"
    /\ messages[4].role = "tool"
    /\ messages[5].role = "tool"
    /\ messages[6].role = "assistant"
    /\ Len(tool_calls) >= 2

\* The text has a line that opens a JSON block.
HasOpenLine(text) == \E i \in 1..Len(text) : Strip(text[i]) = OpenLine

\* Lines i..j of the text are a well-formed block: an opening line, a closing
\* line, no fence line between them, and between them the text of a JSON
\* object with a name and arguments.
WellFormedBlock(text, i, j) ==
    /\ i < j
    /\ Strip(text[i]) = OpenLine
    /\ Strip(text[j]) = CloseLine
    /\ \A k \in (i + 1)..(j - 1) : Strip(text[k]) \notin {OpenLine, CloseLine}
    /\ LET parsed == json_loads(Join(SubSeq(text, i + 1, j - 1))) IN
          /\ parsed.st = "ok"
          /\ IsDict(parsed.val)
          /\ HasKey(parsed.val, "name")
          /\ HasKey(parsed.val, "arguments")

\* C10, as claimed: for a text with fenced blocks none of which is well
\* formed, the call extractor returns no call and does not raise.
C10_MalformedBlocksYieldNothing ==
    (/\ pc = "returned"
     /\ HasOpenLine(input)
     /\ ~\E i, j \in 1..Len(input) : WellFormedBlock(input, i, j))
        => (output.calls = <<>> /\ ~output.raised)

\* The well-formed blocks of the text, each as its pair of line numbers.
WellFormedBlocks(text) ==
    {b \in (1..Len(text)) \X (1..Len(text)) : WellFormedBlock(text, b[1], b[2])}

\* The decoded text is a JSON object that has a name and arguments.
IsCallObject(parsed) ==
    /\ parsed.st = "ok"
    /\ IsDict(parsed.val)
    /\ HasKey(parsed.val, "name")
    /\ HasKey(parsed.val, "arguments")

\* C11: when no fenced block gave a call and the content as a whole is a JSON
\* object with a name and arguments, the extractor returns exactly that one
\* call; when fenced blocks gave calls, the result holds one call per such
\* block and nothing else; any other content without a fence yields no call.
C11_BareObjectStrategy ==
    pc = "returned" =>
        /\ (WellFormedBlocks(input) = {} /\ IsCallObject(json_loads(Join(input)))) =>
              output = [raised |-> FALSE,
                        calls |-> <<[name |-> Lookup(NoSpace(Join(input)), "name"),
                                     arguments |-> Lookup(NoSpace(Join(input)), "arguments")]>>]
        /\ WellFormedBlocks(input) # {} =>
              (~output.raised => Len(output.calls) = Cardinality(WellFormedBlocks(input)))
        /\ (~HasOpenLine(input) /\ ~IsCallObject(json_loads(Join(input)))) =>
              output.calls = <<>>

\* C11 witness: a bare object spread over two lines of a text without an
\* opening fence gave one call.
C11_BareObjectOverLines ==
    /\ pc = "returned"
    /\ Len(input) >= 2
    /\ ~HasOpenLine(input)
    /\ \E i \in 1..(Len(input) - 1) : input[i] = HeadLine /\ input[i + 1] = TailLine
    /\ Len(output.calls) = 1
    /\ output.calls[1].name = PyStr("calculate")
    /\ output.calls[1].arguments = TwoPlusTwo

\* C12, as claimed: malformed model output, in the API channel as in the
\* text, never raises out of run_test and never aborts the suite: main never
\* exits on an exception, and when it exits every test case has its result.
C12_MalformedOutputRecovered ==
    /\ pc # "raised"
    /\ pc = "exited" => (output # 4 /\ Len(results) = Len(get_test_cases))

\* The executor was applied with no interrupt and returned.
Executed == pc = "returned" /\ input.interrupt = "none"

\* C13: for a tool name that is none of the four built-in ones, whatever the
\* arguments, the executor returns a failed ToolCallResult whose error is
\* "Unknown tool: " followed by the name, and does not raise.
C13_UnknownToolFails ==
    (Executed /\ input.tool_name \notin {PyStr(n) : n \in BuiltinTools}) =>
        /\ ~output.raised
        /\ output.result = ToolCallResult(input.tool_name, input.arguments, FALSE,
                                          Error("Unknown tool: ") \o input.tool_name)

\* C13 witness: a tool that does not exist, called with arguments that are
\* no dict, gave the unknown-tool failure.
C13_UnknownToolAnyArguments ==
    /\ Executed
    /\ input.tool_name = PyStr("delete_file")
    /\ ~IsDict(input.arguments)
    /\ ~output.raised
    /\ ~output.result.success
    /\ output.result.error = <<Word("Unknown tool: "), Str("delete_file")>>

\* The required arguments of write_file, read_file and run_command.
RequiredOf(tool) ==
    CASE tool = "write_file" -> {"path", "content"}
      [] tool = "read_file" -> {"path"}
      [] tool = "run_command" -> {"command"}
      [] OTHER -> {}

\* C14, as claimed: for write_file, read_file and run_command the executor
\* returns a successful result exactly when every required argument is
\* present in the arguments, whatever its value.
C14_PresenceOnly ==
    (/\ Executed
     /\ input.tool_name \in {PyStr("write_file"), PyStr("read_file"), PyStr("run_command")}) =>
        /\ ~output.raised
        /\ output.result.success <=>
              /\ IsDict(input.arguments)
              /\ \A key \in RequiredOf(input.tool_name[1].v) : HasKey(input.arguments, key)

\* The response carries an API call of calculate on an expression that
\* Python fails to evaluate.
InvalidCalculateIn(r) ==
    \E k \in 1..Len(r.tool_calls) :
        r.tool_calls[k] = ApiToolCall("calculate", Dict1("expression", "not_a_number + 5"))

\* C15: a calculate call whose expression fails to evaluate is recorded as a
\* failed ToolCallResult with the error "Invalid expression"; nothing is
\* raised, the run goes on with the next round-trip, and a run that then
\* ends is judged by the evaluator on its calls, the failed one among them.
C15_EvaluationFailureIsFailedCall ==
    [][ (pc = "await" /\ response'.ok /\ InvalidCalculateIn(response')) =>
            /\ pc' # "raised"
            /\ Len(tool_calls') = Len(tool_calls) + Len(response'.tool_calls)
            /\ \A k \in 1..Len(response'.tool_calls) :
                  response'.tool_calls[k]
                      = ApiToolCall("calculate", Dict1("expression", "not_a_number + 5"))
                  => tool_calls'[Len(tool_calls) + k]
                      = ToolCallResult(PyStr("calculate"),
                                       Dict1("expression", "not_a_number + 5"),
                                       FALSE, <<Word("Invalid expression")>>)
            /\ iteration < max_iterations => (pc' = "await" /\ sent' = sent + 1)
            /\ pc' = "done" =>
                  ret' = TestResult(get_test_cases[case].name,
                                    evaluate_test_result(get_test_cases[case], tool_calls',
                                                         EmptyText),
                                    tool_calls', response'.content, "") ]_vars

\* C15 witness: calculate was expected, its one call failed to evaluate, the
\* run went on, stopped on the next response, and the verdict is PARTIAL.
C15_InvalidExpressionPartial ==
    /\ pc = "done"
    /\ exit = "break"
    /\ ExpectedOf(case) = <<PyStr("calculate")>>
    /\ sent = 2
    /\ Len(tool_calls) = 1
    /\ tool_calls[1].error = <<Word("Invalid expression")>>
    /\ ret.result = "PARTIAL"

\* The expressions built only from numbers, + - * / and parentheses.
Arithmetic == {"2 + 2", "(1 + 2) * 3", "1 / 0"}

\* C16, as claimed: calculate on an expression that is not built only from
\* numbers, + - * / and parentheses yields a failed ToolCallResult.
C16_RestrictedEvaluator ==
    (/\ Executed
     /\ input.tool_name = PyStr("calculate")
     /\ IsDict(input.arguments)
     /\ HasKey(input.arguments, "expression")
     /\ \/ ~IsStr(Lookup(input.arguments, "expression"))
        \/ Lookup(input.arguments, "expression")[1].v \notin Arithmetic)
        => (~output.raised /\ ~output.result.success)

\* C17: a run that ends at the round-trip cap returns the evaluator's
\* verdict for the calls it collected, as a run that stopped normally does;
\* the cap adds no note and does not by itself make the verdict FAIL.
C17_CapVerdictIsEvaluated ==
    (pc = "done" /\ exit \in {"cap", "break"}) =>
        /\ ret.tool_calls = tool_calls
        /\ ret.notes = ""
        /\ ret.result = evaluate_test_result(get_test_cases[case], tool_calls, EmptyText)

\* C17 witness: a run ended at the cap with the verdict PASS.
C17_CapReachedPass ==
    /\ pc = "done"
    /\ exit = "cap"
    /\ sent = max_iterations
    /\ ret.result = "PASS"

\* The k-th well-formed block of the text, by the line it opens on.
BlockAt(text, k) ==
    CHOOSE b \in WellFormedBlocks(text) :
        Cardinality({c \in WellFormedBlocks(text) : c[1] < b[1]}) = k - 1

\* The name and the arguments of the JSON object in lines i+1..j-1.
CallIn(text, b) ==
    [name |-> Lookup(NoSpace(Join(SubSeq(text, b[1] + 1, b[2] - 1))), "name"),
     arguments |-> Lookup(NoSpace(Join(SubSeq(text, b[1] + 1, b[2] - 1))), "arguments")]

\* The calls the model issued in a response, in the order it issued them:
\* the entries of the API list, or else the fenced blocks of the text from
\* top to bottom, or else the one bare object.
Issued(r) ==
    IF r.tool_calls # <<>>
    THEN [k \in 1..Len(r.tool_calls) |->
            [name |-> Lookup(Lookup(r.tool_calls[k], "function"), "name"),
             arguments |-> Lookup(Lookup(r.tool_calls[k], "function"), "arguments")]]
    ELSE IF WellFormedBlocks(r.content) # {}
    THEN [k \in 1..Cardinality(WellFormedBlocks(r.content)) |->
            CallIn(r.content, BlockAt(r.content, k))]
    ELSE IF IsCallObject(json_loads(Join(r.content)))
    THEN <<[name |-> Lookup(NoSpace(Join(r.content)), "name"),
            arguments |-> Lookup(NoSpace(Join(r.content)), "arguments")]>>
    ELSE <<>>

\* C18: tool_calls keeps the calls of earlier turns in front, and a turn adds
\* the results of its calls in the order the response issued them; the
\* TestResult carries tool_calls as collected.
C18_CallsInIssueOrder ==
    [][ /\ (pc = "await" /\ response'.ok /\ pc' # "raised") =>
              /\ IsPrefix(tool_calls, tool_calls')
              /\ Len(tool_calls') = Len(tool_calls) + Len(Issued(response'))
              /\ \A k \in 1..Len(Issued(response')) :
                    /\ tool_calls'[Len(tool_calls) + k].tool_name = Issued(response')[k].name
                    /\ ~IsStr(Issued(response')[k].arguments) =>
                          tool_calls'[Len(tool_calls) + k].arguments
                              = Issued(response')[k].arguments
        /\ pc' = "done" => ret'.tool_calls = tool_calls' ]_vars

\* C18 witness: a turn of two API calls and then a turn of two fenced calls,
\* kept in that order.
C18_TwoTurnsOfTwoCalls ==
    /\ Len(tool_calls) >= 4
    /\ tool_calls[1].tool_name = PyStr("write_file")
    /\ tool_calls[2].tool_name = PyStr("read_file")
    /\ tool_calls[3].tool_name = PyStr("run_command")
    /\ tool_calls[4].tool_name = PyStr("delete_file")

\* The test cases whose result is PASS.
PassedCases == {n \in 1..Len(results) : results[n].result = "PASS"}

\* C19: after a suite that completed main exits with 0 exactly when every
\* result is PASS, with 1 when not all are PASS but at least 80% are, and
\* with 2 when fewer than 80% are; PARTIAL, FAIL and SKIP do not count.
C19_ExitCodeByPassRate ==
    pc = "exited" =>
        /\ Len(results) = Len(get_test_cases)
        /\ output \in {0, 1, 2}
        /\ output = 0 <=> Cardinality(PassedCases) = Len(results)
        /\ output = 1 <=> /\ Cardinality(PassedCases) < Len(results)
                          /\ 5 * Cardinality(PassedCases) >= 4 * Len(results)
        /\ output = 2 <=> 5 * Cardinality(PassedCases) < 4 * Len(results)

\* C19 witness: five results are PASS and one is PARTIAL, main exited with 1.
C19_FiveOfSixPass ==
    /\ pc = "exited"
    /\ Cardinality(PassedCases) = Len(results) - 1
    /\ \E n \in 1..Len(results) : results[n].result = "PARTIAL"
    /\ output = 1

\* C20, as claimed: a user interrupt delivered while a tool call executes
\* leaves the executor as KeyboardInterrupt (and so aborts the suite): the
\* call does not return a ToolCallResult.
C20_InterruptAborts ==
    (/\ pc = "returned"
     /\ \/ input.interrupt = "entry"
        \/ input.interrupt = "eval" /\ ReachesEval(input.tool_name, input.arguments))
        => (output.raised /\ output.result = NoToolCallResult)

\* C21: a transport failure ends only the current test case: its result is
\* stored and the next test case of the catalog is run; the names of the
\* catalog differ, the results are kept in catalog order, and a suite that
\* finishes has one result for every test case.
C21_FailureEndsOnlyItsTest ==
    /\ [](/\ \A a, b \in 1..Len(get_test_cases) :
                a # b => get_test_cases[a].name # get_test_cases[b].name
          /\ Len(results) <= Len(get_test_cases)
          /\ \A n \in 1..Len(results) : results[n].test_name = get_test_cases[n].name
          /\ pc = "finished" => Len(results) = Len(get_test_cases)
          /\ pc # "finished" => Len(results) = case - 1)
    /\ [][ (pc = "done" /\ exit = "failure") =>
              /\ results' = Append(results, ret)
              /\ ret.result = "FAIL"
              /\ IF case < Len(get_test_cases)
                 THEN pc' = "idle" /\ case' = case + 1
                 ELSE pc' = "finished" ]_vars

\* C21 witness: the suite finished although the first test case ended on a
\* transport failure; the second one ran after it and executed a call.
C21_RanOnAfterFailure ==
    /\ pc = "finished"
    /\ results[1].notes # ""
    /\ results[1].result = "FAIL"
    /\ results[2].tool_calls # <<>>
    /\ Len(results) = Len(get_test_cases)

\* C22: test cases run one after another and share no conversation state:
\* the test case changes only when run_test has returned and its result is
\* stored; between two runs there is no transcript and no collected call; a
\* run's first request carries its own system prompt and user message and
\* nothing else; and the TestResult of a run holds exactly the calls whose
\* tool turns are in that run's transcript.
C22_NoStateAcrossTests ==
    /\ [](/\ pc = "idle" => (messages = <<>> /\ tool_calls = <<>>)
          /\ (pc = "await" /\ sent = 1) =>
                messages = << Message("system",
                                      << <<Word(get_test_cases[case].system_prompt)>> >>),
                              Message("user",
                                      << <<Word(get_test_cases[case].user_message)>> >>) >>
          /\ pc = "done" =>
                /\ ret.test_name = get_test_cases[case].name
                /\ ret.tool_calls = tool_calls
                /\ Len(ret.tool_calls) = Len(Turns(messages, "tool"))
                /\ \A k \in 1..Len(ret.tool_calls) :
                      Turns(messages, "tool")[k]
                          = ToolMessage(ret.tool_calls[k].tool_name, ret.tool_calls[k]))
    /\ [][ case' # case =>
              (pc = "done" /\ pc' = "idle" /\ case' = case + 1
               /\ results' = Append(results, ret)) ]_vars

\* C22 witness: the first test case executed calls, the second one ran after
\* it and returned a result without any call.
C22_SecondRunStartsClean ==
    /\ pc = "done"
    /\ case = 2
    /\ Len(results) = 1
    /\ results[1].tool_calls # <<>>
    /\ exit = "break"
    /\ ret.tool_calls = <<>>

\* The text of a turn that holds the fenced block
\* {"name": "calculate", "arguments": {"expression": "2 + 2"}}.
FencedCalculateText == <<ProseLine, OpenLine, CallLine, CloseLine>>

\* C23: for the test case "Calculate 2 + 2" that expects calculate, when the
\* first turn held the fenced calculate block and the second turn yields no
\* call, the run returns after exactly two round-trips with exactly one
\* ToolCallResult, calculate with success, and the verdict PASS.
C23_CalculateEndToEnd ==
    [][ (/\ pc = "await"
         /\ get_test_cases[case].user_message = "Calculate 2 + 2"
         /\ ExpectedOf(case) = <<PyStr("calculate")>>
         /\ sent = 2
         /\ Len(messages) >= 3
         /\ messages[3] = Message("assistant", FencedCalculateText)
         /\ response'.ok
         /\ response'.tool_calls = <<>>
         /\ \/ response'.content = EmptyText
            \/ parse_tool_calls_from_response(response'.content)
                   = [raised |-> FALSE, calls |-> <<>>]) =>
            /\ pc' = "done"
            /\ sent' = 2
            /\ ret'.tool_calls
                  = <<ToolCallResult(PyStr("calculate"), TwoPlusTwo, TRUE, NoError)>>
            /\ ret'.result = "PASS"
            /\ ret'.notes = "" ]_vars

\* C23 witness: that run, ended by a second turn of plain prose.
C23_CalculateRunPassed ==
    /\ pc = "done"
    /\ case = 1
    /\ sent = 2
    /\ messages[3] = Message("assistant", FencedCalculateText)
    /\ response = PlainText
    /\ Len(ret.tool_calls) = 1
    /\ ret.tool_calls[1].success
    /\ ret.result = "PASS"

\* The arguments of the k-th API call of the response, its function being a
\* dict.
ApiArguments(r, k) == Lookup(Lookup(r.tool_calls[k], "function"), "arguments")

\* The k-th API call of the response has a function that is a dict, with
\* arguments that are a str.
HasStrArguments(r, k) ==
    /\ IsDict(r.tool_calls[k])
    /\ HasKey(r.tool_calls[k], "function")
    /\ IsDict(Lookup(r.tool_calls[k], "function"))
    /\ HasKey(Lookup(r.tool_calls[k], "function"), "arguments")
    /\ IsStr(ApiArguments(r, k))

\* C24, as claimed: an API call whose arguments are an encoded str is
\* executed with the decoded arguments, or with the empty dict when the str
\* does not decode; nothing is raised and the run goes on.
C24_StrArgumentsDecoded ==
    [][ (pc = "await" /\ response'.ok
         /\ \E k \in 1..Len(response'.tool_calls) : HasStrArguments(response', k)) =>
            /\ pc' # "raised"
            /\ Len(tool_calls') = Len(tool_calls) + Len(response'.tool_calls)
            /\ \A k \in 1..Len(response'.tool_calls) :
                  HasStrArguments(response', k) =>
                      tool_calls'[Len(tool_calls) + k].arguments
                          = (IF json_loads(Lex(ApiArguments(response', k)[1].v)).st = "ok"
                             THEN json_loads(Lex(ApiArguments(response', k)[1].v)).val
                             ELSE EmptyDict) ]_vars

\* The text of a turn that holds a fenced call of read_file.
FencedReadFileText ==
    <<OpenLine, CallObject("read_file", Dict1("path", "hello.txt")), CloseLine>>

\* C25: when a response carries API calls, the turn executes those calls
\* and no other: one ToolCallResult per entry of the API list, under the
\* entry's name, whatever calls the text of the response holds.
C25_ApiCallsOnly ==
    [][ (pc = "await" /\ response'.ok /\ response'.tool_calls # <<>> /\ pc' # "raised") =>
            /\ Len(tool_calls') = Len(tool_calls) + Len(response'.tool_calls)
            /\ \A k \in 1..Len(response'.tool_calls) :
                  tool_calls'[Len(tool_calls) + k].tool_name
                      = Lookup(Lookup(response'.tool_calls[k], "function"), "name")
            /\ Len(messages') = Len(messages) + 1 + Len(response'.tool_calls) ]_vars

\* C25 witness: the response carried an API call of calculate and, in its
\* text, a well-formed fenced call of read_file; only calculate was executed.
C25_FencedCallBesideApiCall ==
    /\ pc = "await"
    /\ sent = 2
    /\ response.tool_calls # <<>>
    /\ response.content = FencedReadFileText
    /\ parse_tool_calls_from_response(response.content).calls # <<>>
    /\ Len(tool_calls) = 1
    /\ tool_calls[1].tool_name = PyStr("calculate")

\* C26: when some region between an opening line and the next closing line
\* (with no opening line between them) decodes to an object with a name and
\* arguments, the extractor returns exactly the calls of those regions, from
\* top to bottom, and nothing for any other line; closing lines outside a
\* block, blocks restarted by a second opening line and a block left open
\* give nothing.
C26_OneCallPerRegion ==
    (pc = "returned" /\ ~output.raised) =>
        /\ WellFormedBlocks(input) # {} =>
              output.calls = [k \in 1..Cardinality(WellFormedBlocks(input)) |->
                                 CallIn(input, BlockAt(input, k))]
        /\ (WellFormedBlocks(input) = {} /\ HasOpenLine(input)) => output.calls = <<>>

\* C26 witness: a block restarted by a second opening line lost the call
\* gathered before it, and the empty block that followed gave nothing.
C26_RestartDropsLines ==
    /\ pc = "returned"
    /\ input = <<OpenLine, CallLine, OpenLine, CloseLine>>
    /\ output = [raised |-> FALSE, calls |-> <<>>]

\* C27, as claimed: a run_test call whose chat request returned either
\* sends its next request, of at most max_iterations, or returns a
\* TestResult for its test case; run_all_tests stores it and goes on; and
\* main exits only after run_all_tests returned with a result for every
\* test case of the catalog.
C27_EveryRunReturns ==
    [][ /\ pc = "await" =>
              \/ pc' = "await" /\ sent' = sent + 1 /\ sent' <= max_iterations
              \/ pc' = "done" /\ ret'.test_name = get_test_cases[case].name
        /\ pc = "done" => (results' = Append(results, ret) /\ pc' \in {"idle", "finished"})
        /\ pc' = "exited" =>
              (pc = "finished" /\ Len(results) = Len(get_test_cases)) ]_vars

\* The calls with the same names and success flags, other arguments and
\* other error texts.
Revised(calls) ==
    [k \in 1..Len(calls) |->
        ToolCallResult(calls[k].tool_name, TwoPlusTwo, calls[k].success,
                       IF calls[k].success THEN NoError ELSE Error("Invalid expression"))]

\* C28: the verdict depends only on the expected tools and on the names and
\* success flags of the calls: it is the verdict of the calls with other
\* arguments and error texts, judged with another final text; and the
\* evaluation leaves the test case and the tool_calls as they were.
C28_VerdictByNamesAndFlags ==
    [][ pc = "call" =>
            /\ input' = input
            /\ output' = evaluate_test_result(input.test_case, Revised(input.tool_calls),
                                              <<ProseLine>>)
            /\ output' = evaluate_test_result(input.test_case, input.tool_calls, EmptyText)
      ]_vars

\* C28 witness: all expected tools called, one call failed, verdict PARTIAL,
\* for calls whose arguments and errors differ from the revised ones.
C28_PartialWhateverTheArguments ==
    /\ pc = "returned"
    /\ Len(input.tool_calls) >= 2
    /\ Revised(input.tool_calls) # input.tool_calls
    /\ input.test_case.expected_tools # <<>>
    /\ ~SomeExpectedAbsent
    /\ \E n \in 1..Len(input.tool_calls) : ~input.tool_calls[n].success
    /\ output = "PARTIAL"

====
